---- MODULE Spec2Model ----
(***************************************************************************)
(* Odds history / latest-snapshot storage (src/ante_ai/storage.py), the    *)
(* update run that drives it (src/ante_ai/cli.py, src/hedj/cli.py) and the *)
(* opportunity detectors that read the snapshot (src/scripts/*.py).        *)
(*                                                                         *)
(* Files are modelled by their parsed content: a CSV file is a flag        *)
(* "exists" and the sequence of its data rows; a CSV cell is the text of   *)
(* a number, the empty text, or some other text (see NumCell).             *)
(* Instants (timestamp_utc, event_start_time, now) are whole hours: the    *)
(* program writes them with datetime.isoformat() in UTC, a fixed-width     *)
(* text whose lexicographic order is the chronological order.              *)
(***************************************************************************)
EXTENDS Integers, Sequences, FiniteSets, TLC

VARIABLES history, latest, call, det

vars == <<history, latest, call, det>>

(***************************************************************************)
(* Bounds of the model.                                                    *)
(***************************************************************************)
MaxHist == 2
MaxBatch == 2
MaxTs == 2
MaxQuotes == 3
MaxRows == 4

(***************************************************************************)
(* CSV cells.  csv.DictWriter writes str(value); csv.DictReader returns    *)
(* the text.  int(text) / float(text) succeed exactly on NumCell.          *)
(***************************************************************************)
NumCell(n) == [kind |-> "num", num |-> n]

EmptyCell == [kind |-> "empty", num |-> 0]

TextCell == [kind |-> "text", num |-> 0]

\* int(cell) raises ValueError unless the cell is the text of an integer.
IntParses(cell) == cell.kind = "num"

\* OddsStorage._parse_line: None for "", None when float() raises.
parse_line(cell) == IF cell.kind = "num" THEN cell ELSE EmptyCell

(***************************************************************************)
(* Python compares str by code point; the strings that occur as sort keys, *)
(* in that order.                                                          *)
(***************************************************************************)
StrOrder ==
    <<"Chiefs", "FanDuel", "americanfootball_nfl", "away", "bet365", "draftkings",
      "draw", "e1", "f1", "f2", "fanduel", "futures", "home", "moneyline", "over",
      "spread", "total", "under">>

StrRank(s) == CHOOSE i \in DOMAIN StrOrder : StrOrder[i] = s

\* Tuple comparison a < b of equal-length tuples of strings.
RECURSIVE TupleLess(_, _)
TupleLess(a, b) ==
    IF a = <<>> THEN FALSE
    ELSE IF Head(a) # Head(b) THEN StrRank(Head(a)) < StrRank(Head(b))
    ELSE TupleLess(Tail(a), Tail(b))

(***************************************************************************)
(* models.py                                                               *)
(***************************************************************************)
\* OddsRow.to_dict as written by csv.DictWriter (one history row).
OddsRow(ts, book, sport, event_id, start, home, away, market, outcome, price, line) ==
    [timestamp_utc |-> ts, book |-> book, sport |-> sport, event_id |-> event_id,
     event_start_time |-> start, home_team |-> home, away_team |-> away,
     market_type |-> market, outcome |-> outcome, price |-> price, line |-> line]

\* LatestOddsRow.to_dict as written by csv.DictWriter (one snapshot row).
LatestOddsRow(first, last, opening_line, current_line, line_movement) ==
    [book |-> last.book, sport |-> last.sport, event_id |-> last.event_id,
     event_start_time |-> last.event_start_time,
     home_team |-> last.home_team, away_team |-> last.away_team,
     market_type |-> last.market_type, outcome |-> last.outcome,
     opening_price |-> NumCell(first.price.num),
     current_price |-> NumCell(last.price.num),
     price_movement |-> NumCell(last.price.num - first.price.num),
     opening_line |-> opening_line,
     current_line |-> current_line,
     line_movement |-> line_movement,
     last_updated |-> last.timestamp_utc]

(***************************************************************************)
(* storage.py                                                              *)
(***************************************************************************)
\* flatten_events: one row per (event, market, outcome), in loop order, all
\* with the run's timestamp.
RECURSIVE FlattenOutcomes(_, _, _, _)
FlattenOutcomes(event, market, outcomes, ts) ==
    IF outcomes = <<>> THEN <<>>
    ELSE <<OddsRow(ts, market.book, event.sport, event.event_id, event.start_time,
                   event.home_team, event.away_team, market.market_type,
                   Head(outcomes).outcome, Head(outcomes).price, Head(outcomes).line)>>
         \o FlattenOutcomes(event, market, Tail(outcomes), ts)

RECURSIVE FlattenMarkets(_, _, _)
FlattenMarkets(event, markets, ts) ==
    IF markets = <<>> THEN <<>>
    ELSE FlattenOutcomes(event, Head(markets), Head(markets).outcomes, ts)
         \o FlattenMarkets(event, Tail(markets), ts)

RECURSIVE flatten_events(_, _)
flatten_events(events, ts) ==
    IF events = <<>> THEN <<>>
    ELSE FlattenMarkets(Head(events), Head(events).markets, ts)
         \o flatten_events(Tail(events), ts)

\* The keyword parameters flatten_events declares.
FlattenEventsParams == {"events", "timestamp"}

\* load_history: [] when the file is absent, else its rows.
load_history(hist) == IF hist.exists THEN hist.rows ELSE <<>>

\* The grouping key of generate_latest.
GroupKeyWithoutBook(record) ==
    <<record.sport, record.event_id, record.market_type, record.outcome>>

GroupKey(record) ==
    <<record.book, record.sport, record.event_id, record.market_type, record.outcome>>

\* Keys of `grouped` in insertion order (dict order = first appearance).
RECURSIVE GroupKeys(_)
GroupKeys(h) ==
    IF h = <<>> THEN <<>>
    ELSE LET init == GroupKeys(SubSeq(h, 1, Len(h) - 1))
             k == GroupKey(h[Len(h)])
         IN  IF \E i \in DOMAIN init : init[i] = k THEN init ELSE Append(init, k)

\* grouped[key]: the records of the key, in arrival order.
Grouped(h, key) == SelectSeq(h, LAMBDA r : GroupKey(r) = key)

\* Insert r after every element whose timestamp is <= r's (stable).
RECURSIVE InsertByTimestamp(_, _)
InsertByTimestamp(s, r) ==
    IF s = <<>> THEN <<r>>
    ELSE IF s[Len(s)].timestamp_utc <= r.timestamp_utc THEN Append(s, r)
    ELSE Append(InsertByTimestamp(SubSeq(s, 1, Len(s) - 1), r), s[Len(s)])

\* sorted(records, key=lambda r: r["timestamp_utc"])
SortedRecordsArrivalOrder(records) == records

\* A sort by timestamp that puts the later arrival first among equal
\* timestamps.
RECURSIVE SortedRecordsTiesReversed(_)
SortedRecordsTiesReversed(records) ==
    IF records = <<>> THEN <<>>
    ELSE InsertByTimestamp(SortedRecordsTiesReversed(Tail(records)), Head(records))

\* A sort by timestamp in descending order.
SortedRecordsNewestFirst(records) ==
    LET s == SortedRecordsTiesReversed(records)
    IN  [i \in DOMAIN s |-> s[Len(s) + 1 - i]]

RECURSIVE SortedRecords(_)
SortedRecords(records) ==
    IF records = <<>> THEN <<>>
    ELSE InsertByTimestamp(SortedRecords(SubSeq(records, 1, Len(records) - 1)),
                           records[Len(records)])

\* The snapshot row of one key with a missing line counted as 0.
LatestRowOfLineOrZero(records) ==
    LET sorted_records == SortedRecords(records)
        first == sorted_records[1]
        last == sorted_records[Len(sorted_records)]
        opening_line == parse_line(first.line)
        current_line == parse_line(last.line)
    IN  LatestOddsRow(first, last, opening_line, current_line,
                      NumCell(current_line.num - opening_line.num))

\* The body of the loop over grouped.items(): the snapshot row of one key.
\* Defined when int() parses both prices.
LatestRowOf(records) ==
    LET sorted_records == SortedRecords(records)
        first == sorted_records[1]
        last == sorted_records[Len(sorted_records)]
        opening_line == parse_line(first.line)
        current_line == parse_line(last.line)
        line_movement ==
            IF opening_line.kind = "num" /\ current_line.kind = "num"
            THEN NumCell(current_line.num - opening_line.num)
            ELSE EmptyCell
    IN  LatestOddsRow(first, last, opening_line, current_line, line_movement)

\* int(first["price"]) or int(last["price"]) raises for this group.
GroupRaises(records) ==
    LET sorted_records == SortedRecords(records)
    IN  \/ ~IntParses(sorted_records[1].price)
        \/ ~IntParses(sorted_records[Len(sorted_records)].price)

SortKey(r) == <<r.sport, r.event_id, r.market_type, r.outcome>>

\* Insert r after every element whose sort key is <= r's (stable).
RECURSIVE InsertBySortKey(_, _)
InsertBySortKey(s, r) ==
    IF s = <<>> THEN <<r>>
    ELSE IF ~TupleLess(SortKey(r), SortKey(s[Len(s)])) THEN Append(s, r)
    ELSE Append(InsertBySortKey(SubSeq(s, 1, Len(s) - 1), r), s[Len(s)])

\* latest_rows.sort(key=(sport, event_id, market_type, outcome))
RECURSIVE SortedLatest(_)
SortedLatest(rows) ==
    IF rows = <<>> THEN <<>>
    ELSE InsertBySortKey(SortedLatest(SubSeq(rows, 1, Len(rows) - 1)), rows[Len(rows)])

\* Some group makes generate_latest raise ValueError.
LatestRaises(h) ==
    \E i \in DOMAIN GroupKeys(h) : GroupRaises(Grouped(h, GroupKeys(h)[i]))

\* latest_rows of generate_latest, as written to latest.csv.
LatestRows(h) ==
    LET keys == GroupKeys(h)
    IN  SortedLatest([i \in DOMAIN keys |-> LatestRowOf(Grouped(h, keys[i]))])

\* append_to_history(rows): the history file afterwards.  No rows: the file
\* is not opened; otherwise it is opened in append mode (created with a
\* header when absent) and the rows are written in order.
AppendToHistoryInFront(hist, rows) ==
    IF rows = <<>> THEN hist
    ELSE [exists |-> TRUE, rows |-> rows \o load_history(hist)]

append_to_history(hist, rows) ==
    IF rows = <<>> THEN hist
    ELSE [exists |-> TRUE, rows |-> load_history(hist) \o rows]

\* generate_latest() adding the new records to those already in latest.csv.
GenerateLatestMerging(hist, lat) ==
    LET h == load_history(hist)
    IN  IF h = <<>> THEN [latest |-> lat, result |-> "ok", ret |-> 0]
        ELSE IF LatestRaises(h) THEN [latest |-> lat, result |-> "error", ret |-> 0]
        ELSE [latest |-> [exists |-> TRUE, rows |-> lat.rows \o LatestRows(h)],
              result |-> "ok", ret |-> Len(LatestRows(h))]

\* generate_latest() opening latest.csv for writing before the prices are
\* parsed: a failing call leaves an empty snapshot.
GenerateLatestOpeningFirst(hist, lat) ==
    LET h == load_history(hist)
    IN  IF h = <<>> THEN [latest |-> lat, result |-> "ok", ret |-> 0]
        ELSE IF LatestRaises(h)
        THEN [latest |-> [exists |-> TRUE, rows |-> <<>>], result |-> "error", ret |-> 0]
        ELSE [latest |-> [exists |-> TRUE, rows |-> LatestRows(h)],
              result |-> "ok", ret |-> Len(LatestRows(h))]

\* generate_latest(): the snapshot file afterwards, how the call ended and
\* what it returned.  An empty history returns 0 before the file is opened;
\* a price int() rejects raises before the file is opened.
generate_latest(hist, lat) ==
    LET h == load_history(hist)
    IN  IF h = <<>> THEN [latest |-> lat, result |-> "ok", ret |-> 0]
        ELSE IF LatestRaises(h) THEN [latest |-> lat, result |-> "error", ret |-> 0]
        ELSE [latest |-> [exists |-> TRUE, rows |-> LatestRows(h)],
              result |-> "ok", ret |-> Len(LatestRows(h))]

\* cleanup_old_history(days_to_keep): the retention operation the hedj CLI
\* calls; rows older than the cutoff are removed from the history file.
cleanup_old_history(hist, cutoff) ==
    [exists |-> hist.exists,
     rows |-> SelectSeq(hist.rows, LAMBDA r : r.timestamp_utc >= cutoff)]

(***************************************************************************)
(* The record of the last call: its name, how it ended ("ok" or "error"),  *)
(* its return value (for run_update, which returns None, the number of     *)
(* events fetched) and, for append_to_history, its argument.               *)
(***************************************************************************)
Call(op, result, ret, rows) == [op |-> op, result |-> result, ret |-> ret, rows |-> rows]

NoDet == [op |-> "none", now |-> 0, result |-> <<>>]

AppendToHistory(rows) ==
    /\ history' = append_to_history(history, rows)
    /\ call' = Call("append_to_history", "ok", Len(rows), rows)
    /\ UNCHANGED <<latest, det>>

GenerateLatest ==
    LET out == generate_latest(history, latest)
    IN  /\ latest' = out.latest
        /\ call' = Call("generate_latest", out.result, out.ret, <<>>)
        /\ UNCHANGED <<history, det>>

\* generate_latest() when open() of an existing history file raises OSError
\* in load_history: the exception leaves generate_latest at its first line.
GenerateLatestUnreadable ==
    /\ history.exists
    /\ call' = Call("generate_latest", "error", 0, <<>>)
    /\ UNCHANGED <<history, latest, det>>

\* The process is killed while generate_latest writes latest.csv: open(.., "w")
\* has truncated the file and the first k records have reached it.
GenerateLatestCrash(k) ==
    /\ load_history(history) # <<>>
    /\ ~LatestRaises(load_history(history))
    /\ k \in 0..Len(LatestRows(load_history(history)))
    /\ latest' = [exists |-> TRUE,
                  rows |-> SubSeq(LatestRows(load_history(history)), 1, k)]
    /\ call' = Call("generate_latest", "crash", k, <<>>)
    /\ UNCHANGED <<history, det>>

CleanupOldHistory(cutoff) ==
    /\ history.exists
    /\ history' = cleanup_old_history(history, cutoff)
    /\ call' = Call("cleanup_old_history", "ok",
                    Len(history.rows) - Len(history'.rows), <<>>)
    /\ UNCHANGED <<latest, det>>

(***************************************************************************)
(* cli.py: run_update.  `keywords` are the keyword arguments the CLI       *)
(* passes to flatten_events; Python raises TypeError for one the method    *)
(* does not declare.  Any exception leaves run_update at once (main logs   *)
(* it and returns 1).                                                      *)
(***************************************************************************)
RunUpdateSteps(op, keywords, sports, events, now) ==
    IF sports = <<>> \/ events = <<>>
    THEN /\ call' = Call(op, "ok", 0, <<>>)
         /\ UNCHANGED <<history, latest, det>>
    ELSE IF ~(keywords \subseteq FlattenEventsParams)
    THEN /\ call' = Call(op, "error", Len(events), <<>>)
         /\ UNCHANGED <<history, latest, det>>
    ELSE LET rows == flatten_events(events, now)
             appended == append_to_history(history, rows)
             out == generate_latest(appended, latest)
         IN  /\ history' = appended
             /\ latest' = out.latest
             /\ call' = Call(op, out.result, Len(events), <<>>)
             /\ UNCHANGED det

\* ante_ai/cli.py: flatten_events(events, book=..., timestamp=...)
RunUpdate(sports, events, now) ==
    RunUpdateSteps("run_update", {"book", "timestamp"}, sports, events, now)

\* hedj/cli.py (fetch_props = False): flatten_events(events, timestamp=...)
HedjRunUpdate(sports, events, now) ==
    RunUpdateSteps("hedj_run_update", {"timestamp"}, sports, events, now)

(***************************************************************************)
(* scripts/arb_alerts.py and scripts/tight_line_summary.py.                *)
(*                                                                         *)
(* Decimal odds and implied probabilities are exact fractions <<n, d>>;    *)
(* the program computes them in binary floating point, which agrees with   *)
(* the exact value on every comparison the model's prices reach.           *)
(* Rounded outputs are integers in the unit of the last kept digit.        *)
(***************************************************************************)
ILLINOIS_BOOKS ==
    {"fanduel", "draftkings", "betmgm", "caesars", "pointsbetus", "betrivers", "espnbet"}

\* MIN_ROI_PERCENT = 0.5 and MAX_ROI_PERCENT = 15.0, in tenths of a percent.
MIN_ROI_PERCENT_X10 == 5

MAX_ROI_PERCENT_X10 == 150

\* MIN_FUTURES_EDGE = 5.0, in tenths of a percentage point.
MIN_FUTURES_EDGE_X10 == 50

\* MAX_IMPLIED_PROB = 1.02, in hundredths.
MAX_IMPLIED_PROB_X100 == 102

\* timedelta(days=1), in hours.
TomorrowHours == 24

\* str.lower() on the book names of the model.
Lower(s) == IF s = "FanDuel" THEN "fanduel" ELSE s

\* datetime.fromisoformat(row['event_start_time']) succeeds.
StartParses(cell) == cell.kind = "num"

IsValidAnyInteger(odds) == TRUE

is_valid_american_odds(odds) == odds >= 100 \/ odds <= -100

\* american_to_decimal raises ValueError.
DecimalRaises(american) == ~(american >= 100) /\ ~(american <= -100)

\* american_to_decimal, as the fraction <<numerator, denominator>>.
american_to_decimal(american) ==
    IF american >= 100 THEN <<100 + american, 100>>
    ELSE <<(-american) + 100, -american>>

\* implied_sum = (1/dec1) + (1/dec2), as a fraction.
ImpliedSum(dec1, dec2) == <<dec1[2] * dec2[1] + dec2[2] * dec1[1], dec1[1] * dec2[1]>>

\* round(n / d) for n >= 0, d > 0.
RoundDiv(n, d) == (2 * n + d) \div (2 * d)

\* The elements of s without repetition, in order of first appearance.
RECURSIVE Distinct(_)
Distinct(s) ==
    IF s = <<>> THEN <<>>
    ELSE LET init == Distinct(SubSeq(s, 1, Len(s) - 1))
         IN  IF \E i \in DOMAIN init : init[i] = s[Len(s)] THEN init
             ELSE Append(init, s[Len(s)])

RECURSIVE Concat(_)
Concat(ss) == IF ss = <<>> THEN <<>> ELSE Head(ss) \o Concat(Tail(ss))

\* Stable ascending sort of the indices of keys.
RECURSIVE InsertIndex(_, _, _)
InsertIndex(perm, i, keys) ==
    IF perm = <<>> THEN <<i>>
    ELSE IF keys[perm[Len(perm)]] <= keys[i] THEN Append(perm, i)
    ELSE Append(InsertIndex(SubSeq(perm, 1, Len(perm) - 1), i, keys), perm[Len(perm)])

RECURSIVE SortedIndices(_, _)
SortedIndices(keys, n) ==
    IF n = 0 THEN <<>> ELSE InsertIndex(SortedIndices(keys, n - 1), n, keys)

\* sorted(s, key=...) with the keys given; reverse=True keeps equal keys in order.
SortedBy(s, keys) ==
    LET perm == SortedIndices(keys, Len(s)) IN [j \in DOMAIN s |-> s[perm[j]]]

\* The first quote of a side, whatever its price.
FirstQuote(side) == side[1]

\* max(side, key=price) / min(side, key=price): the first extreme element.
MaxByPrice(side) ==
    side[CHOOSE i \in DOMAIN side :
            /\ \A j \in DOMAIN side : side[j].price <= side[i].price
            /\ \A j \in 1..(i - 1) : side[j].price < side[i].price]

MinByPrice(side) ==
    side[CHOOSE i \in DOMAIN side :
            /\ \A j \in DOMAIN side : side[j].price >= side[i].price
            /\ \A j \in 1..(i - 1) : side[j].price > side[i].price]

\* The first loop of find_arbitrage_opportunities: the rows it keeps.
ArbKeepsAnyBook(row, allowed_books, now) ==
    /\ StartParses(row.event_start_time)
    /\ ~(row.event_start_time.num < now)
    /\ IntParses(row.current_price)
    /\ is_valid_american_odds(row.current_price.num)

ArbKeepsPastEvents(row, allowed_books, now) ==
    /\ Lower(row.book) \in allowed_books
    /\ IntParses(row.current_price)
    /\ is_valid_american_odds(row.current_price.num)

ArbKeeps(row, allowed_books, now) ==
    /\ Lower(row.book) \in allowed_books
    /\ StartParses(row.event_start_time)
    /\ ~(row.event_start_time.num < now)
    /\ IntParses(row.current_price)
    /\ is_valid_american_odds(row.current_price.num)

\* The first loop of find_tight_lines without the test against tomorrow.
TightKeepsAnyLaterStart(row, allowed_books, now) ==
    /\ Lower(row.book) \in allowed_books
    /\ StartParses(row.event_start_time)
    /\ ~(row.event_start_time.num < now)
    /\ IntParses(row.current_price)
    /\ is_valid_american_odds(row.current_price.num)

\* The first loop of find_tight_lines: the rows it keeps.
TightKeeps(row, allowed_books, now) ==
    /\ Lower(row.book) \in allowed_books
    /\ StartParses(row.event_start_time)
    /\ ~(row.event_start_time.num < now \/ row.event_start_time.num > now + TomorrowHours)
    /\ IntParses(row.current_price)
    /\ is_valid_american_odds(row.current_price.num)

\* events[event_id]['markets'][market][outcome]
OutcomeQuotes(rows, market, outcome) ==
    LET sel == SelectSeq(rows, LAMBDA r : r.market_type = market /\ r.outcome = outcome)
    IN  [i \in DOMAIN sel |->
            [book |-> Lower(sel[i].book), price |-> sel[i].current_price.num,
             line |-> sel[i].current_line, last_updated |-> sel[i].last_updated]]

\* o.get('line') or '0'
LineKey(o) == IF o.line.kind = "empty" THEN [kind |-> "zero", num |-> 0] ELSE o.line

AtLine(quotes, line) == SelectSeq(quotes, LAMBDA o : LineKey(o) = line)

Leg(label, line, best, stake) ==
    [side |-> [label |-> label, line |-> line], book |-> best.book,
     odds |-> best.price, stake |-> stake, last_updated |-> best.last_updated]

\* The line of a moneyline pair (side1_label and side2_label are None).
NoLine == [kind |-> "none", num |-> 0]

\* roi_percent < MIN_ROI_PERCENT or roi_percent > MAX_ROI_PERCENT, for
\* roi_percent = ((1 / implied_sum) - 1) * 100 and implied_sum = n / d < 1.
RoiOutsideBandNoMaximum(n, d) == 10 * 100 * (d - n) < MIN_ROI_PERCENT_X10 * n

RoiOutsideBand(n, d) ==
    \/ 10 * 100 * (d - n) < MIN_ROI_PERCENT_X10 * n
    \/ 10 * 100 * (d - n) > MAX_ROI_PERCENT_X10 * n

\* implied_sum < 1.0 or implied_sum > MAX_IMPLIED_PROB, for implied_sum = n / d.
TightRejectsNoMaximum(n, d) == n < d

TightRejects(n, d) == n < d \/ 100 * n > MAX_IMPLIED_PROB_X100 * d

\* Exact fractions <<n, d>> with d > 0, kept in lowest terms.
RECURSIVE GCD(_, _)
GCD(a, b) == IF b = 0 THEN a ELSE GCD(b, a % b)

Frac(n, d) ==
    LET g == GCD(IF n < 0 THEN -n ELSE n, d)
    IN  IF g = 0 THEN <<0, 1>> ELSE <<n \div g, d \div g>>

FracAdd(a, b) == Frac(a[1] * b[2] + b[1] * a[2], a[2] * b[2])

FracSub(a, b) == Frac(a[1] * b[2] - b[1] * a[2], a[2] * b[2])

FracMul(a, b) ==
    LET x == Frac(a[1], b[2])
        y == Frac(b[1], a[2])
    IN  Frac(x[1] * y[1], x[2] * y[2])

\* a / b for b > 0.
FracDiv(a, b) == FracMul(a, <<b[2], b[1]>>)

\* total_stake = 100
total_stake == 100

\* A stake that is not divided by implied_sum.
StakeNotNormalised(dec, implied_sum) ==
    FracMul(Frac(dec[2], dec[1]), <<total_stake, 1>>)

\* stake = ((1/dec) / implied_sum) * total_stake, unrounded.
Stake(dec, implied_sum) ==
    FracMul(FracDiv(Frac(dec[2], dec[1]), Frac(implied_sum[1], implied_sum[2])),
            <<total_stake, 1>>)

\* profit = (stake1 * dec1) - total_stake, unrounded.
Profit(stake1, dec1) == FracSub(FracMul(stake1, Frac(dec1[1], dec1[2])), <<total_stake, 1>>)

\* check_two_way_arb: <<>> for None, else the opportunity.  The labels of a
\* moneyline are the team names, those of a total "Over <line>"/"Under <line>".
\* round(x, 2) is in hundredths.
check_two_way_arb(side1_odds, side2_odds, event, market, event_id, line) ==
    IF side1_odds = <<>> \/ side2_odds = <<>> THEN <<>>
    ELSE
    LET best1 == MaxByPrice(side1_odds)
        best2 == MaxByPrice(side2_odds)
    IN  IF DecimalRaises(best1.price) \/ DecimalRaises(best2.price) THEN <<>>
        ELSE
        LET dec1 == american_to_decimal(best1.price)
            dec2 == american_to_decimal(best2.price)
            implied_sum == ImpliedSum(dec1, dec2)
            n == implied_sum[1]
            d == implied_sum[2]
            stake1 == Stake(dec1, implied_sum)
            stake2 == Stake(dec2, implied_sum)
            profit == Profit(stake1, dec1)
        IN  IF n >= d THEN <<>>
            ELSE IF RoiOutsideBand(n, d) THEN <<>>
            ELSE <<[event_id |-> event_id, sport |-> event.sport,
                    home_team |-> event.home_team, away_team |-> event.away_team,
                    event_start_time |-> event.event_start_time,
                    market |-> market,
                    roi_percent |-> RoundDiv(100 * 100 * (d - n), n),
                    profit |-> RoundDiv(100 * profit[1], profit[2]),
                    found_at |-> IF best1.last_updated <= best2.last_updated
                                 THEN best1.last_updated ELSE best2.last_updated,
                    legs |-> <<Leg(IF line = NoLine THEN event.home_team ELSE "Over", line,
                                   best1, RoundDiv(100 * stake1[1], stake1[2])),
                               Leg(IF line = NoLine THEN event.away_team ELSE "Under", line,
                                   best2, RoundDiv(100 * stake2[1], stake2[2]))>>]>>

\* check_tight_line: <<>> for None, else the record.
check_tight_line(side1_odds, side2_odds, event, market, event_id, line) ==
    IF side1_odds = <<>> \/ side2_odds = <<>> THEN <<>>
    ELSE
    LET best1 == MaxByPrice(side1_odds)
        best2 == MaxByPrice(side2_odds)
    IN  IF DecimalRaises(best1.price) \/ DecimalRaises(best2.price) THEN <<>>
        ELSE
        LET dec1 == american_to_decimal(best1.price)
            dec2 == american_to_decimal(best2.price)
            implied_sum == ImpliedSum(dec1, dec2)
            n == implied_sum[1]
            d == implied_sum[2]
        IN  IF TightRejects(n, d) THEN <<>>
            ELSE <<[event_id |-> event_id, sport |-> event.sport,
                    home_team |-> event.home_team, away_team |-> event.away_team,
                    event_start_time |-> event.event_start_time,
                    market |-> market,
                    implied_prob_sum |-> RoundDiv(10000 * n, d),
                    gap_to_arb |-> RoundDiv(100 * 100 * (n - d), d),
                    legs |-> <<Leg(IF line = NoLine THEN event.home_team ELSE "Over", line,
                                   best1, 0),
                               Leg(IF line = NoLine THEN event.away_team ELSE "Under", line,
                                   best2, 0)>>]>>

\* The pair check a detector calls: check_two_way_arb or check_tight_line.
CheckPair(detector, side1_odds, side2_odds, event, market, event_id, line) ==
    IF detector = "arb"
    THEN check_two_way_arb(side1_odds, side2_odds, event, market, event_id, line)
    ELSE check_tight_line(side1_odds, side2_odds, event, market, event_id, line)

\* The second loop checking the home and away quotes of a spread like those
\* of a moneyline.
MarketOpportunitiesWithSpread(detector, rows, event_id, market) ==
    IF market = "moneyline" \/ market = "spread"
    THEN CheckPair(detector, OutcomeQuotes(rows, market, "home"),
                   OutcomeQuotes(rows, market, "away"), rows[1], market, event_id, NoLine)
    ELSE IF market = "total"
    THEN LET overs == OutcomeQuotes(rows, market, "over")
             unders == OutcomeQuotes(rows, market, "under")
             lines == Distinct([i \in DOMAIN overs |-> LineKey(overs[i])])
         IN  Concat([i \in DOMAIN lines |->
                        IF AtLine(unders, lines[i]) # <<>>
                        THEN CheckPair(detector, AtLine(overs, lines[i]), AtLine(unders, lines[i]),
                                       rows[1], market, event_id, lines[i])
                        ELSE <<>>])
    ELSE <<>>

\* The second loop pairing the overs with the unders of a total whatever
\* their lines.
MarketOpportunitiesAnyLine(detector, rows, event_id, market) ==
    IF market = "moneyline"
    THEN CheckPair(detector, OutcomeQuotes(rows, market, "home"),
                   OutcomeQuotes(rows, market, "away"), rows[1], market, event_id, NoLine)
    ELSE IF market = "total"
    THEN LET overs == OutcomeQuotes(rows, market, "over")
             unders == OutcomeQuotes(rows, market, "under")
         IN  IF overs = <<>> THEN <<>>
             ELSE CheckPair(detector, overs, unders, rows[1], market, event_id,
                            LineKey(overs[1]))
    ELSE <<>>

\* The second loop of find_arbitrage_opportunities / find_tight_lines for one
\* market of one event: moneyline pairs home with away; total pairs, for each
\* line of the overs in order of appearance, the overs and unders at it.
MarketOpportunities(detector, rows, event_id, market) ==
    IF market = "moneyline"
    THEN CheckPair(detector, OutcomeQuotes(rows, market, "home"),
                   OutcomeQuotes(rows, market, "away"), rows[1], market, event_id, NoLine)
    ELSE IF market = "total"
    THEN LET overs == OutcomeQuotes(rows, market, "over")
             unders == OutcomeQuotes(rows, market, "under")
             lines == Distinct([i \in DOMAIN overs |-> LineKey(overs[i])])
         IN  Concat([i \in DOMAIN lines |->
                        IF AtLine(unders, lines[i]) # <<>>
                        THEN CheckPair(detector, AtLine(overs, lines[i]), AtLine(unders, lines[i]),
                                       rows[1], market, event_id, lines[i])
                        ELSE <<>>])
    ELSE <<>>

\* The opportunities in the order the loops over events.items() and
\* event['markets'].items() append them (dict order = first appearance).
Opportunities(detector, kept) ==
    LET event_ids == Distinct([i \in DOMAIN kept |-> kept[i].event_id])
        OfEvent(event_id) ==
            LET rows == SelectSeq(kept, LAMBDA r : r.event_id = event_id)
                markets == Distinct([i \in DOMAIN rows |-> rows[i].market_type])
            IN  Concat([i \in DOMAIN markets |->
                           MarketOpportunities(detector, rows, event_id, markets[i])])
    IN  Concat([i \in DOMAIN event_ids |-> OfEvent(event_ids[i])])

\* find_arbitrage_opportunities returning the opportunities as the loops
\* appended them.
FindArbitrageOpportunitiesUnsorted(odds, allowed_books, now) ==
    Opportunities("arb", SelectSeq(odds, LAMBDA row : ArbKeeps(row, allowed_books, now)))

\* find_arbitrage_opportunities(odds, allowed_books) at the instant now.
find_arbitrage_opportunities(odds, allowed_books, now) ==
    LET kept == SelectSeq(odds, LAMBDA row : ArbKeeps(row, allowed_books, now))
        opportunities == Opportunities("arb", kept)
    IN  SortedBy(opportunities,
                 [i \in DOMAIN opportunities |-> -opportunities[i].roi_percent])

\* find_tight_lines(odds, allowed_books) at the instant now.
find_tight_lines(odds, allowed_books, now) ==
    LET kept == SelectSeq(odds, LAMBDA row : TightKeeps(row, allowed_books, now))
        tight_lines == Opportunities("tight", kept)
    IN  SortedBy(tight_lines,
                 [i \in DOMAIN tight_lines |-> tight_lines[i].implied_prob_sum])

\* The first loop of find_futures_value: the rows it keeps.
FuturesKeeps(row, allowed_books) ==
    /\ row.market_type = "futures"
    /\ Lower(row.book) \in allowed_books
    /\ IntParses(row.current_price)
    /\ is_valid_american_odds(row.current_price.num)

\* edge >= MIN_FUTURES_EDGE, for edge = (n / d) * 100.
EdgeAlwaysReachesFloor(n, d) == TRUE

EdgeReachesFloor(n, d) == 10 * 100 * n >= MIN_FUTURES_EDGE_X10 * d

\* The second loop of find_futures_value for one key f"{sport}:{team}".
FuturesValueOf(rows) ==
    LET odds == [i \in DOMAIN rows |->
                    [book |-> Lower(rows[i].book), price |-> rows[i].current_price.num,
                     last_updated |-> rows[i].last_updated]]
    IN  IF Len(odds) < 2 THEN <<>>
        ELSE
        LET best == MaxByPrice(odds)
            worst == MinByPrice(odds)
        IN  IF DecimalRaises(best.price) \/ DecimalRaises(worst.price) THEN <<>>
            ELSE
            LET best_decimal == american_to_decimal(best.price)
                worst_decimal == american_to_decimal(worst.price)
                \* worst_implied - best_implied, as a fraction
                n == worst_decimal[2] * best_decimal[1] - best_decimal[2] * worst_decimal[1]
                d == worst_decimal[1] * best_decimal[1]
            IN  IF EdgeReachesFloor(n, d)
                THEN <<[sport |-> rows[1].sport, futures_title |-> rows[1].home_team,
                        team |-> rows[1].outcome,
                        edge_percent |-> RoundDiv(10 * 100 * n, d),
                        best_book |-> best.book, best_odds |-> best.price,
                        worst_book |-> worst.book, worst_odds |-> worst.price,
                        last_updated |-> best.last_updated]>>
                ELSE <<>>

\* find_futures_value(odds, allowed_books)
find_futures_value(odds, allowed_books) ==
    LET kept == SelectSeq(odds, LAMBDA row : FuturesKeeps(row, allowed_books))
        keys == Distinct([i \in DOMAIN kept |-> <<kept[i].sport, kept[i].outcome>>])
        value_opportunities ==
            Concat([i \in DOMAIN keys |->
                       FuturesValueOf(SelectSeq(kept,
                           LAMBDA r : <<r.sport, r.outcome>> = keys[i]))])
    IN  SortedBy(value_opportunities,
                 [i \in DOMAIN value_opportunities |-> -value_opportunities[i].edge_percent])

(***************************************************************************)
(* The detector calls.  det records the last call: its name, the instant   *)
(* datetime.now() returned and the list it returned.  The scripts load     *)
(* latest.csv (load_latest_odds) and return 1 when it does not exist.      *)
(***************************************************************************)
FindArbitrageOpportunities(now) ==
    /\ latest.exists
    /\ det' = [op |-> "find_arbitrage_opportunities", now |-> now,
               result |-> find_arbitrage_opportunities(latest.rows, ILLINOIS_BOOKS, now)]
    /\ UNCHANGED <<history, latest, call>>

FindTightLines(now) ==
    /\ latest.exists
    /\ det' = [op |-> "find_tight_lines", now |-> now,
               result |-> find_tight_lines(latest.rows, ILLINOIS_BOOKS, now)]
    /\ UNCHANGED <<history, latest, call>>

FindFuturesValue ==
    /\ latest.exists
    /\ det' = [op |-> "find_futures_value", now |-> 0,
               result |-> find_futures_value(latest.rows, ILLINOIS_BOOKS)]
    /\ UNCHANGED <<history, latest, call>>

(***************************************************************************)
(* twitter_bot.py: find_significant_movements over the rows of latest.csv. *)
(* Movements are in points (lines) and American-odds units (prices); the   *)
(* line thresholds are in tenths of a point.                               *)
(***************************************************************************)
\* spread_threshold = 2.5 and total_threshold = 3.0, in tenths of a point.
SPREAD_THRESHOLD_X10 == 25

TOTAL_THRESHOLD_X10 == 30

MONEYLINE_THRESHOLD == 30

\* row.get(field, default) on a row csv.DictReader returned.
RowGet(row, field, default) == IF field \in DOMAIN row THEN row[field] ELSE default

\* float(cell or 0) raises ValueError.
FloatRaises(cell) == cell.kind = "text"

\* float(cell or 0): the empty text is falsy and gives 0.
FloatOrZero(cell) == IF cell.kind = "num" THEN cell.num ELSE 0

Abs(x) == IF x < 0 THEN -x ELSE x

\* The body of the loop: <<>> when the row is skipped, else its entry.
SignificantMovementOf(row) ==
    IF FloatRaises(RowGet(row, "price_movement", EmptyCell))
       \/ FloatRaises(RowGet(row, "line_movement", EmptyCell))
    THEN <<>>
    ELSE
    LET movement == FloatOrZero(RowGet(row, "price_movement", EmptyCell))
        line_movement == FloatOrZero(RowGet(row, "line_movement", EmptyCell))
        market == RowGet(row, "market", "")
        is_significant ==
            IF market = "spread" /\ 10 * Abs(line_movement) >= SPREAD_THRESHOLD_X10 THEN TRUE
            ELSE IF market = "total" /\ 10 * Abs(line_movement) >= TOTAL_THRESHOLD_X10 THEN TRUE
            ELSE IF market = "moneyline" /\ Abs(movement) >= MONEYLINE_THRESHOLD THEN TRUE
            ELSE FALSE
    IN  IF movement = 0 /\ line_movement = 0 THEN <<>>
        ELSE IF is_significant
        THEN <<[sport |-> RowGet(row, "sport", ""),
                event |-> <<RowGet(row, "away_team", ""), RowGet(row, "home_team", "")>>,
                market |-> market,
                outcome |-> RowGet(row, "outcome", ""),
                book |-> RowGet(row, "book", ""),
                line_movement |-> line_movement,
                price_movement |-> movement,
                current_price |-> RowGet(row, "current_price", EmptyCell),
                current_line |-> RowGet(row, "current_line", EmptyCell),
                opening_price |-> RowGet(row, "opening_price", EmptyCell),
                opening_line |-> RowGet(row, "opening_line", EmptyCell)]>>
        ELSE <<>>

\* find_significant_movements(odds_data) with the default thresholds.
find_significant_movements(odds_data) ==
    Concat([i \in DOMAIN odds_data |-> SignificantMovementOf(odds_data[i])])

\* run_alerts: load_latest_odds, then find_significant_movements unless the
\* file is absent or holds no row.
FindSignificantMovements ==
    /\ latest.exists
    /\ latest.rows # <<>>
    /\ det' = [op |-> "find_significant_movements", now |-> 0,
               result |-> find_significant_movements(latest.rows)]
    /\ UNCHANGED <<history, latest, call>>

(***************************************************************************)
(* Inputs of the storage specification.                                    *)
(***************************************************************************)
Sport == "americanfootball_nfl"

StoreBooks == {"fanduel", "draftkings"}

\* (market_type, outcome, price, line) of the outcomes a provider reports.
\* Prices reach the CSV as integers, or as a text int() rejects.
StoreOutcomes ==
    {<<"moneyline", "home", NumCell(-110), EmptyCell>>,
     <<"moneyline", "home", TextCell, EmptyCell>>,
     <<"total", "over", NumCell(-110), NumCell(45)>>,
     <<"total", "over", NumCell(120), NumCell(48)>>}

StoreStart == NumCell(30)

\* <<book, outcome>> of the quotes on offer: one book quotes every outcome,
\* the other only the first total.
StoreQuotes ==
    {q \in StoreBooks \X StoreOutcomes :
        q[1] = "fanduel" \/ q[2] = <<"total", "over", NumCell(-110), NumCell(45)>>}

StoreRows ==
    {OddsRow(ts, q[1], Sport, "e1", StoreStart, "KC", "BUF",
             q[2][1], q[2][2], q[2][3], q[2][4]) :
        ts \in 1..MaxTs, q \in StoreQuotes}

Min(a, b) == IF a <= b THEN a ELSE b

\* The argument lists of at most n rows (n capped by the batch bound).
Batches(S, n) == UNION {[1..k -> S] : k \in 0..Min(n, MaxBatch)}

\* Room left in the history under the model's bound.
Room == MaxHist - Len(history.rows)

\* What a provider returns: no event, or one event whose markets carry one
\* outcome each (at most n of them).
ProviderEvents(n) ==
    {<<>>} \cup
    {<<[event_id |-> "e1", sport |-> Sport, home_team |-> "KC", away_team |-> "BUF",
        start_time |-> StoreStart,
        markets |-> [i \in DOMAIN ms |->
                        [market_type |-> ms[i][2][1], book |-> ms[i][1],
                         outcomes |-> <<[outcome |-> ms[i][2][2], price |-> ms[i][2][3],
                                         line |-> ms[i][2][4]]>>]]]>> :
        ms \in UNION {[1..k -> StoreQuotes] : k \in 1..Min(n, MaxBatch)}}

\* config["provider"]["sports"], and what fetch_odds returns for it (it is
\* not called when no sport is configured).
ConfiguredSports == {<<>>, <<Sport>>}

Fetched(sports) == IF sports = <<>> THEN {<<>>} ELSE ProviderEvents(Room)

Init ==
    /\ history = [exists |-> FALSE, rows |-> <<>>]
    /\ latest = [exists |-> FALSE, rows |-> <<>>]
    /\ call = Call("none", "ok", 0, <<>>)
    /\ det = NoDet

Next ==
    \/ \E rows \in Batches(StoreRows, Room) : AppendToHistory(rows)
    \/ GenerateLatest
    \/ GenerateLatestUnreadable
    \/ \E sports \in ConfiguredSports, now \in 1..MaxTs :
          \E events \in Fetched(sports) : RunUpdate(sports, events, now)
    \/ \E sports \in ConfiguredSports, now \in 1..MaxTs :
          \E events \in Fetched(sports) : HedjRunUpdate(sports, events, now)

Spec == Init /\ [][Next]_vars

(***************************************************************************)
(* The storage with the retention operation: rows also leave the history.  *)
(***************************************************************************)
RetentionRows ==
    {r \in StoreRows : r.book = "fanduel" /\ r.price = NumCell(-110)}

NextRetention ==
    \/ \E rows \in Batches(RetentionRows, Room) : AppendToHistory(rows)
    \/ GenerateLatest
    \/ \E cutoff \in 1..(MaxTs + 1) : CleanupOldHistory(cutoff)

SpecRetention == Init /\ [][NextRetention]_vars

(***************************************************************************)
(* The storage with a process that can be killed while it writes the       *)
(* snapshot.                                                               *)
(***************************************************************************)
NextCrash ==
    \/ \E rows \in Batches(RetentionRows, Room) : AppendToHistory(rows)
    \/ GenerateLatest
    \/ \E k \in 0..MaxHist : GenerateLatestCrash(k)

SpecCrash == Init /\ [][NextCrash]_vars

(***************************************************************************)
(* Inputs of the detector specification: a snapshot generate_latest wrote  *)
(* from a history of one run (every key observed once, at hour 1), read by *)
(* a detector at one of two instants.  A snapshot holds moneyline quotes   *)
(* of one event or futures quotes of one selection.                        *)
(***************************************************************************)
Nows == {10, 20}

DetectStarts == {NumCell(15), NumCell(40)}

DetectPrices == {NumCell(-150), NumCell(-105), NumCell(100), NumCell(102), NumCell(160)}

FuturesPrices == {NumCell(110), NumCell(140), NumCell(150)}

\* (book, event_id, market_type, outcome) of the quotes.
MoneylineKeys == {"fanduel", "draftkings"} \X {"e1"} \X {"moneyline"} \X {"home", "away"}

FuturesKeys ==
    {"fanduel", "FanDuel", "draftkings", "bet365"} \X {"f1", "f2"} \X {"futures"} \X {"Chiefs"}

\* Every choice of at most MaxQuotes keys, each with a (price, start).
Quoted(keys, quotes) ==
    UNION {[K -> quotes] : K \in {K \in SUBSET keys : Cardinality(K) \in 1..MaxQuotes}}

\* The keys of a set in ascending (up) or descending order.
RECURSIVE KeysInOrder(_, _)
KeysInOrder(K, up) ==
    IF K = {} THEN <<>>
    ELSE LET k == CHOOSE k \in K : \A o \in K \ {k} :
                      IF up THEN TupleLess(k, o) ELSE TupleLess(o, k)
         IN  <<k>> \o KeysInOrder(K \ {k}, up)

\* The history of the run that observed the quotes q in the given order.
ObservedHistory(q, up) ==
    LET keys == KeysInOrder(DOMAIN q, up)
    IN  [i \in DOMAIN keys |->
            OddsRow(1, keys[i][1], Sport, keys[i][2], q[keys[i]][2], "KC", "BUF",
                    keys[i][3], keys[i][4], q[keys[i]][1], EmptyCell)]

DetectHistories ==
    {ObservedHistory(q, up) :
        q \in Quoted(MoneylineKeys, DetectPrices \X DetectStarts)
               \cup Quoted(FuturesKeys, FuturesPrices \X {NumCell(40)}),
        up \in BOOLEAN}

InitDetect ==
    /\ \E h \in DetectHistories :
          /\ history = [exists |-> TRUE, rows |-> h]
          /\ latest = generate_latest(history, [exists |-> FALSE, rows |-> <<>>]).latest
          /\ call = Call("generate_latest", "ok", Len(latest.rows), <<>>)
    /\ det = NoDet

NextDetect ==
    \/ \E now \in Nows : FindArbitrageOpportunities(now)
    \/ \E now \in Nows : FindTightLines(now)
    \/ FindFuturesValue

SpecDetect == InitDetect /\ [][NextDetect]_vars

(***************************************************************************)
(* The detectors as functions of the rows load_latest_odds returns: a      *)
(* snapshot file with rows of a book outside the allowed set, with start   *)
(* times that are past, absent or unparsable, and with prices that are not *)
(* valid American odds or not integers.                                    *)
(***************************************************************************)
\* (current_price, event_start_time) of the rows.
FilterQuotes ==
    {<<NumCell(-105), NumCell(15)>>, <<NumCell(100), NumCell(15)>>,
     <<NumCell(160), NumCell(15)>>, <<NumCell(-80), NumCell(15)>>,
     <<TextCell, NumCell(15)>>, <<NumCell(160), EmptyCell>>,
     <<NumCell(160), TextCell>>, <<NumCell(100), NumCell(34)>>,
     <<NumCell(160), NumCell(40)>>}

FilterFuturesQuotes ==
    {<<NumCell(110), NumCell(40)>>, <<NumCell(140), NumCell(40)>>,
     <<NumCell(150), NumCell(40)>>, <<NumCell(900), NumCell(40)>>,
     <<NumCell(1900), NumCell(40)>>}

FilterMoneylineKeys ==
    {<<"fanduel", "e1", "moneyline", "home">>, <<"draftkings", "e1", "moneyline", "home">>,
     <<"fanduel", "e1", "moneyline", "away">>, <<"bet365", "e1", "moneyline", "away">>}

FilterFuturesKeys == {"FanDuel", "draftkings", "bet365"} \X {"f1"} \X {"futures"} \X {"Chiefs"}

\* One row of latest.csv as csv.DictReader returns it.
SnapshotRow(key, quote) ==
    [book |-> key[1], sport |-> Sport, event_id |-> key[2],
     event_start_time |-> quote[2], home_team |-> "KC", away_team |-> "BUF",
     market_type |-> key[3], outcome |-> key[4],
     opening_price |-> quote[1], current_price |-> quote[1],
     price_movement |-> NumCell(0),
     opening_line |-> EmptyCell, current_line |-> EmptyCell,
     line_movement |-> EmptyCell, last_updated |-> 1]

SnapshotOf(q, up) ==
    LET keys == KeysInOrder(DOMAIN q, up)
    IN  [i \in DOMAIN keys |-> SnapshotRow(keys[i], q[keys[i]])]

FilterSnapshots ==
    {SnapshotOf(q, up) :
        q \in Quoted(FilterMoneylineKeys, FilterQuotes)
               \cup Quoted(FilterFuturesKeys, FilterFuturesQuotes),
        up \in BOOLEAN}

InitFilter ==
    /\ history = [exists |-> FALSE, rows |-> <<>>]
    /\ \E rows \in FilterSnapshots : latest = [exists |-> TRUE, rows |-> rows]
    /\ call = Call("none", "ok", 0, <<>>)
    /\ det = NoDet

SpecFilter == InitFilter /\ [][NextDetect]_vars

(***************************************************************************)
(* The detectors on snapshots with several markets of one event: moneyline *)
(* (home, away, draw), totals at two lines, spreads and a futures          *)
(* selection.  The rows are in the order generate_latest writes them:      *)
(* sorted by (sport, event_id, market_type, outcome), rows of equal sort   *)
(* key in the order their keys first appeared in the history.              *)
(***************************************************************************)
\* <<book, event_id, market_type, outcome, current_price, current_line,
\*   event_start_time>>; the spread rows were last observed after the event
\* was rescheduled.
MarketCatalogue ==
    {<<"fanduel", "e1", "moneyline", "home", 160, EmptyCell, 30>>,
     <<"draftkings", "e1", "moneyline", "home", 100, EmptyCell, 30>>,
     <<"fanduel", "e1", "moneyline", "away", -150, EmptyCell, 30>>,
     <<"draftkings", "e1", "moneyline", "away", -105, EmptyCell, 30>>,
     <<"draftkings", "e1", "moneyline", "draw", 160, EmptyCell, 30>>,
     <<"fanduel", "e1", "total", "over", 160, NumCell(45), 30>>,
     <<"draftkings", "e1", "total", "over", 100, NumCell(48), 30>>,
     <<"fanduel", "e1", "total", "under", -105, NumCell(45), 30>>,
     <<"draftkings", "e1", "total", "under", -105, NumCell(48), 30>>,
     <<"draftkings", "e1", "total", "over", 100, EmptyCell, 30>>,
     <<"fanduel", "e1", "total", "under", -105, EmptyCell, 30>>,
     <<"fanduel", "e1", "spread", "home", 160, NumCell(3), 32>>,
     <<"draftkings", "e1", "spread", "away", -150, NumCell(3), 32>>,
     <<"fanduel", "f1", "futures", "Chiefs", 160, EmptyCell, 30>>}

\* One row of latest.csv as csv.DictReader returns it.
MarketRow(q) ==
    [book |-> q[1], sport |-> Sport, event_id |-> q[2],
     event_start_time |-> NumCell(q[7]), home_team |-> "KC", away_team |-> "BUF",
     market_type |-> q[3], outcome |-> q[4],
     opening_price |-> NumCell(q[5]), current_price |-> NumCell(q[5]),
     price_movement |-> NumCell(0),
     opening_line |-> q[6], current_line |-> q[6],
     line_movement |-> IF q[6].kind = "num" THEN NumCell(0) ELSE EmptyCell,
     last_updated |-> 1]

\* The rows of the quotes Q as generate_latest writes them, the keys having
\* first appeared in ascending (up) or descending order.
MarketSnapshotOf(Q, up) ==
    LET keys == KeysInOrder({<<q[1], q[2], q[3], q[4]>> : q \in Q}, up)
    IN  SortedLatest([i \in DOMAIN keys |->
                        MarketRow(CHOOSE q \in Q : <<q[1], q[2], q[3], q[4]>> = keys[i])])

\* At most MaxRows quotes, no two of one (book, event_id, market_type, outcome).
MarketSnapshots ==
    {MarketSnapshotOf(Q, up) :
        Q \in {Q \in SUBSET MarketCatalogue :
                  /\ Cardinality(Q) \in 1..MaxRows
                  /\ \A q1, q2 \in Q :
                        <<q1[1], q1[2], q1[3], q1[4]>> = <<q2[1], q2[2], q2[3], q2[4]>>
                            => q1 = q2},
        up \in BOOLEAN}

InitMarkets ==
    /\ history = [exists |-> FALSE, rows |-> <<>>]
    /\ \E rows \in MarketSnapshots : latest = [exists |-> TRUE, rows |-> rows]
    /\ call = Call("none", "ok", 0, <<>>)
    /\ det = NoDet

SpecMarkets == InitMarkets /\ [][NextDetect]_vars

(***************************************************************************)
(* The storage with lines that are present, absent or unparsable, and the  *)
(* movement alerts that read the snapshot.                                 *)
(***************************************************************************)
\* (market_type, outcome, price, line)
MovementOutcomes ==
    {<<"moneyline", "home", NumCell(-110), EmptyCell>>,
     <<"moneyline", "home", NumCell(-150), EmptyCell>>,
     <<"total", "over", NumCell(-110), NumCell(45)>>,
     <<"total", "over", NumCell(-110), NumCell(48)>>,
     <<"total", "over", NumCell(-110), EmptyCell>>,
     <<"total", "over", NumCell(-110), TextCell>>}

MovementRows ==
    {OddsRow(ts, "fanduel", Sport, "e1", StoreStart, "KC", "BUF", o[1], o[2], o[3], o[4]) :
        ts \in 1..MaxTs, o \in MovementOutcomes}

NextMovements ==
    \/ \E rows \in Batches(MovementRows, Room) : AppendToHistory(rows)
    \/ GenerateLatest
    \/ FindSignificantMovements

SpecMovements == Init /\ [][NextMovements]_vars

(***************************************************************************)
(* Properties of the storage.                                              *)
(***************************************************************************)
\* The key of a movement record: (book, sport, event_id, market_type, outcome).
MovementKey(r) == <<r.book, r.sport, r.event_id, r.market_type, r.outcome>>

HistoryRows == load_history(history)

HistoryKeys == {MovementKey(HistoryRows[i]) : i \in DOMAIN HistoryRows}

SnapshotRows == IF latest.exists THEN latest.rows ELSE <<>>

SnapshotKeys == {MovementKey(SnapshotRows[i]) : i \in DOMAIN SnapshotRows}

\* generate_latest was the last call, it completed, and it read a history
\* with at least one row.
GeneratedFromRows ==
    /\ call.op = "generate_latest"
    /\ call.result = "ok"
    /\ HistoryRows # <<>>

\* C1: after generate_latest has run over a non-empty history, the snapshot
\* holds exactly one movement record per distinct (book, sport, event_id,
\* market_type, outcome) key of the history: no key is missing, none is
\* added, and no two records share a key.
C1_OneRecordPerKey ==
    GeneratedFromRows =>
        /\ latest.exists
        /\ SnapshotKeys = HistoryKeys
        /\ \A i, j \in DOMAIN latest.rows :
              MovementKey(latest.rows[i]) = MovementKey(latest.rows[j]) => i = j
        /\ call.ret = Cardinality(HistoryKeys)

\* Two books quoted the same outcome, and the snapshot holds one record each.
C1_Witness ==
    /\ GeneratedFromRows
    /\ Cardinality(HistoryKeys) = 2
    /\ Cardinality({HistoryRows[i].book : i \in DOMAIN HistoryRows}) = 2
    /\ Cardinality({GroupKeyWithoutBook(HistoryRows[i]) : i \in DOMAIN HistoryRows}) = 1
    /\ Len(latest.rows) = 2

\* The observations of a movement record's key in the history.
ObservationsOf(rec) ==
    {HistoryRows[i] : i \in {j \in DOMAIN HistoryRows :
                                MovementKey(HistoryRows[j]) = MovementKey(rec)}}

\* C2: in every movement record the opening price and line are those of a
\* chronologically earliest observation of the key, the current price and
\* line those of a chronologically latest one, and price_movement is the
\* current price minus the opening price.
C2_OpeningAndCurrent ==
    GeneratedFromRows =>
        \A i \in DOMAIN latest.rows :
            LET rec == latest.rows[i]
                obs == ObservationsOf(rec)
            IN  /\ \E a \in obs :
                      /\ \A o \in obs : a.timestamp_utc <= o.timestamp_utc
                      /\ rec.opening_price = a.price
                      /\ rec.opening_line = a.line
                /\ \E b \in obs :
                      /\ \A o \in obs : o.timestamp_utc <= b.timestamp_utc
                      /\ rec.current_price = b.price
                      /\ rec.current_line = b.line
                      /\ rec.last_updated = b.timestamp_utc
                /\ rec.price_movement =
                      NumCell(rec.current_price.num - rec.opening_price.num)

\* The later observation of a key was appended before the earlier one, and
\* the price moved between them.
C2_Witness ==
    /\ GeneratedFromRows
    /\ Len(HistoryRows) = 2
    /\ MovementKey(HistoryRows[1]) = MovementKey(HistoryRows[2])
    /\ HistoryRows[1].timestamp_utc > HistoryRows[2].timestamp_utc
    /\ Len(latest.rows) = 1
    /\ latest.rows[1].price_movement # NumCell(0)
    /\ latest.rows[1].opening_price = HistoryRows[2].price

\* C3: after every generate_latest that completed, the snapshot holds
\* exactly the keys of the history as it is then, also when the history is
\* absent or empty (the snapshot then holds no record).
C3_SnapshotMatchesHistory ==
    (call.op = "generate_latest" /\ call.result = "ok") => SnapshotKeys = HistoryKeys

C5_AppendOnly ==
    [][/\ Len(HistoryRows) <= Len(load_history(history'))
       /\ SubSeq(load_history(history'), 1, Len(HistoryRows)) = HistoryRows
       /\ (call'.op = "append_to_history"
              => load_history(history') = HistoryRows \o call'.rows)
       /\ (call'.op = "generate_latest" => history' = history)]_vars

\* Rows were appended to a history that already held a different row.
C5_Witness ==
    /\ call.op = "append_to_history"
    /\ Len(call.rows) >= 1
    /\ Len(HistoryRows) > Len(call.rows)
    /\ HistoryRows[1] # HistoryRows[Len(HistoryRows)]

(***************************************************************************)
(* Properties of the detectors.                                            *)
(***************************************************************************)
\* The implied probability of an American price, 1 / decimal odds, as the
\* fraction <<numerator, denominator>>.
ImpliedProbability(price) ==
    IF price > 0 THEN <<100, price + 100>> ELSE <<-price, (-price) + 100>>

\* The implied probability sum of the two legs of an emitted record.
LegsImpliedSum(o) ==
    LET p1 == ImpliedProbability(o.legs[1].odds)
        p2 == ImpliedProbability(o.legs[2].odds)
    IN  <<p1[1] * p2[2] + p2[1] * p1[2], p1[2] * p2[2]>>

\* C6: every arbitrage opportunity emitted has an implied probability sum
\* strictly below 1 and a return within [0.5, 15] percent, both as computed
\* from its two leg prices and as reported in roi_percent.
C6_ArbBand ==
    det.op = "find_arbitrage_opportunities" =>
        \A i \in DOMAIN det.result :
            LET sum == LegsImpliedSum(det.result[i])
                n == sum[1]
                d == sum[2]
            IN  /\ n < d
                /\ 2 * 100 * (d - n) >= n
                /\ 100 * (d - n) <= 15 * n
                /\ det.result[i].roi_percent >= 50
                /\ det.result[i].roi_percent <= 1500
                /\ 2 * det.result[i].roi_percent * n - 2 * 10000 * (d - n) <= n
                /\ 2 * 10000 * (d - n) - 2 * det.result[i].roi_percent * n <= n

\* An opportunity with a return above 10 percent was emitted.
C6_Witness ==
    /\ det.op = "find_arbitrage_opportunities"
    /\ det.result # <<>>
    /\ det.result[1].roi_percent > 1000

\* C7: the two legs of every arbitrage opportunity are at different books.
C7_DifferentBooks ==
    det.op = "find_arbitrage_opportunities" =>
        \A i \in DOMAIN det.result :
            det.result[i].legs[1].book # det.result[i].legs[2].book

OpportunityKey(o) == <<o.event_id, o.market, o.legs[1].side.line>>

\* What the other two-way detector returns for the same snapshot, the same
\* allowed books and the same instant.
OtherDetectorResult ==
    IF det.op = "find_tight_lines"
    THEN find_arbitrage_opportunities(latest.rows, ILLINOIS_BOOKS, det.now)
    ELSE IF det.op = "find_arbitrage_opportunities"
    THEN find_tight_lines(latest.rows, ILLINOIS_BOOKS, det.now)
    ELSE <<>>

\* C9: for the same snapshot, allowed books and instant, no
\* (event, market, line) key is emitted by both the arbitrage detector and
\* the tight-line detector.
C9_NoKeyInBoth ==
    \A i \in DOMAIN det.result : \A j \in DOMAIN OtherDetectorResult :
        OpportunityKey(det.result[i]) # OpportunityKey(OtherDetectorResult[j])

\* The distinct allowed books that quote a futures selection in the snapshot.
FuturesBooksOf(o) ==
    {Lower(latest.rows[i].book) :
        i \in {j \in DOMAIN latest.rows :
                  /\ latest.rows[j].market_type = "futures"
                  /\ latest.rows[j].sport = o.sport
                  /\ latest.rows[j].outcome = o.team
                  /\ Lower(latest.rows[j].book) \in ILLINOIS_BOOKS}}

\* C10: a futures value opportunity is emitted only for a selection that at
\* least two distinct allowed books quote.
C10_TwoDistinctBooks ==
    det.op = "find_futures_value" =>
        \A i \in DOMAIN det.result : Cardinality(FuturesBooksOf(det.result[i])) >= 2

(***************************************************************************)
(* Properties of the alert runs.                                           *)
(***************************************************************************)
\* The stable key of an arbitrage opportunity: event, market, line and the
\* pair of books in either order.
AlertKey(o) ==
    <<o.event_id, o.market, o.legs[1].side.line, {o.legs[1].book, o.legs[2].book}>>

\* C11: an opportunity surfaced by a run of the arbitrage alert script at
\* time T is not emitted again by a later run executed before T + 24h.
C11_NoRealertWithinWindow ==
    [][(/\ det.op = "find_arbitrage_opportunities"
        /\ det'.op = "find_arbitrage_opportunities"
        /\ det'.now > det.now
        /\ det'.now < det.now + 24)
          => \A i \in DOMAIN det.result : \A j \in DOMAIN det'.result :
                AlertKey(det.result[i]) # AlertKey(det'.result[j])]_vars

(***************************************************************************)
(* Properties of generate_latest on malformed input.                       *)
(***************************************************************************)
\* The positions of the history rows whose price int() rejects.
BadPriceRows == {i \in DOMAIN HistoryRows : ~IntParses(HistoryRows[i].price)}

\* C12: when exactly one row of the history has an unparsable price, a
\* generate_latest over that history (the file being readable) still
\* completes and writes a movement record for the key of every other row.
C12_OneBadRowTolerated ==
    Cardinality(BadPriceRows) = 1 =>
        LET out == generate_latest(history, latest)
        IN  /\ out.result = "ok"
            /\ \A i \in DOMAIN HistoryRows \ BadPriceRows :
                  \E j \in DOMAIN out.latest.rows :
                      MovementKey(out.latest.rows[j]) = MovementKey(HistoryRows[i])

\* C13: a generate_latest that fails (the history cannot be read, or the
\* opening or current row of some key has an unparsable price) leaves the
\* snapshot file exactly as it was before the call.
C13_FailureLeavesSnapshot ==
    [][(call'.op = "generate_latest" /\ call'.result = "error")
          => latest' = latest]_vars

\* A generate_latest failed on an unparsable price while a snapshot of an
\* earlier call was on disk, and that snapshot is still there.
C13_Witness ==
    /\ call.op = "generate_latest"
    /\ call.result = "error"
    /\ BadPriceRows # {}
    /\ latest.exists
    /\ latest.rows # <<>>
    /\ \A i \in DOMAIN latest.rows : latest.rows[i].opening_price.kind = "num"

\* C14: when the process is killed while generate_latest writes the
\* snapshot, the snapshot file is either the complete previous snapshot or
\* the complete new one.
C14_SnapshotNeverPartial ==
    [][(call'.op = "generate_latest" /\ call'.result = "crash")
          => \/ latest' = latest
             \/ latest' = [exists |-> TRUE, rows |-> LatestRows(HistoryRows)]]_vars

\* C15: generate_latest is idempotent and deterministic: a call that
\* directly follows a completed call (the history being unchanged) leaves
\* the snapshot as it is and returns the same number; the number returned
\* is the number of records written, and the records are in ascending
\* (sport, event_id, market_type, outcome) order.
C15_Idempotent ==
    /\ [][(/\ call.op = "generate_latest" /\ call.result = "ok"
           /\ call'.op = "generate_latest" /\ call'.result = "ok")
             => (latest' = latest /\ call'.ret = call.ret)]_vars
    /\ [](GeneratedFromRows =>
             /\ call.ret = Len(latest.rows)
             /\ \A i, j \in DOMAIN latest.rows :
                   i < j => ~TupleLess(SortKey(latest.rows[j]), SortKey(latest.rows[i])))

\* A snapshot of two records was written in sorted order from a history
\* that holds their keys in the opposite order.
C15_Witness ==
    /\ GeneratedFromRows
    /\ Len(HistoryRows) = 2
    /\ Len(latest.rows) = 2
    /\ TupleLess(SortKey(HistoryRows[2]), SortKey(HistoryRows[1]))
    /\ MovementKey(latest.rows[1]) = MovementKey(HistoryRows[2])

(***************************************************************************)
(* Properties of the detectors' row filters.                               *)
(***************************************************************************)
\* The last detector call, applied to other rows at the same instant.
DetectorOn(rows) ==
    IF det.op = "find_arbitrage_opportunities"
    THEN find_arbitrage_opportunities(rows, ILLINOIS_BOOKS, det.now)
    ELSE IF det.op = "find_tight_lines"
    THEN find_tight_lines(rows, ILLINOIS_BOOKS, det.now)
    ELSE IF det.op = "find_futures_value"
    THEN find_futures_value(rows, ILLINOIS_BOOKS)
    ELSE <<>>

\* The books an emitted record names.
BooksNamed(o) ==
    IF det.op = "find_futures_value" THEN {o.best_book, o.worst_book}
    ELSE {o.legs[1].book, o.legs[2].book}

AllowedBookRows == SelectSeq(latest.rows, LAMBDA r : Lower(r.book) \in ILLINOIS_BOOKS)

\* C16: every detector uses only the rows whose lower-cased book is in the
\* allowed set: every book an emitted record names is in the set, and the
\* result equals the result on the snapshot without the other books' rows.
C16_AllowedBooksOnly ==
    det.op # "none" =>
        /\ \A i \in DOMAIN det.result : BooksNamed(det.result[i]) \subseteq ILLINOIS_BOOKS
        /\ det.result = DetectorOn(AllowedBookRows)

\* An arbitrage was emitted from a snapshot in which a book outside the set
\* quotes a valid price for an event that has not started.
C16_Witness ==
    /\ det.op = "find_arbitrage_opportunities"
    /\ det.result # <<>>
    /\ \E i \in DOMAIN latest.rows :
          /\ latest.rows[i].book = "bet365"
          /\ latest.rows[i].current_price = NumCell(160)
          /\ latest.rows[i].event_start_time = NumCell(15)
          /\ det.now = 10

NotStartedRows ==
    SelectSeq(latest.rows, LAMBDA r : /\ r.event_start_time.kind = "num"
                                      /\ r.event_start_time.num >= det.now)

\* C17: find_arbitrage_opportunities emits opportunities only for events
\* that have not started at now: a row whose event_start_time is earlier
\* than now, absent or unparsable contributes nothing, so the result equals
\* the result on the snapshot without those rows.
C17_FutureEventsOnly ==
    det.op = "find_arbitrage_opportunities" =>
        /\ \A i \in DOMAIN det.result :
              /\ det.result[i].event_start_time.kind = "num"
              /\ det.result[i].event_start_time.num >= det.now
        /\ det.result = DetectorOn(NotStartedRows)

\* The snapshot holds a pair of prices that is an arbitrage, on rows whose
\* start time is past, absent or unparsable, and nothing was emitted.
C17_Witness ==
    /\ det.op = "find_arbitrage_opportunities"
    /\ det.result = <<>>
    /\ Len(NotStartedRows) < Len(latest.rows)
    /\ find_arbitrage_opportunities(
           [i \in DOMAIN latest.rows |->
               [latest.rows[i] EXCEPT !.event_start_time = NumCell(det.now)]],
           ILLINOIS_BOOKS, det.now) # <<>>

ValidPriceRows ==
    SelectSeq(latest.rows, LAMBDA r : /\ r.current_price.kind = "num"
                                      /\ (\/ r.current_price.num >= 100
                                          \/ r.current_price.num <= -100))

\* C18: a row whose current_price is not a valid American odds value
\* (strictly between -100 and 100, or unparsable) is excluded from every
\* arbitrage and tight-line computation: no leg carries such a price, and
\* the result equals the result on the snapshot without those rows.
C18_InvalidPricesExcluded ==
    det.op \in {"find_arbitrage_opportunities", "find_tight_lines"} =>
        /\ \A i \in DOMAIN det.result : \A k \in 1..2 :
              \/ det.result[i].legs[k].odds >= 100
              \/ det.result[i].legs[k].odds <= -100
        /\ det.result = DetectorOn(ValidPriceRows)

\* A record was emitted although a row of the same side carries a price
\* inside the forbidden band that is higher than the leg's price.
C18_Witness ==
    /\ det.op \in {"find_arbitrage_opportunities", "find_tight_lines"}
    /\ det.result # <<>>
    /\ \E i \in DOMAIN latest.rows :
          /\ latest.rows[i].current_price = NumCell(-80)
          /\ latest.rows[i].outcome = "home"
          /\ det.result[1].legs[1].odds < -80

(***************************************************************************)
(* Properties of the update run.                                           *)
(***************************************************************************)
\* C19: a run_update whose provider returned at least one event completes
\* without error, with the flattened rows appended to the history and the
\* snapshot regenerated from the full history.
C19_RunCompletes ==
    (call.op = "run_update" /\ call.ret >= 1) =>
        /\ call.result = "ok"
        /\ HistoryRows # <<>>
        /\ latest = [exists |-> TRUE, rows |-> LatestRows(HistoryRows)]

(***************************************************************************)
(* Properties of the futures detector.                                     *)
(***************************************************************************)
\* The edge of an emitted futures record, implied probability at the worst
\* price minus implied probability at the best price, as a fraction.
FuturesEdge(o) ==
    LET best == ImpliedProbability(o.best_odds)
        worst == ImpliedProbability(o.worst_odds)
    IN  <<worst[1] * best[2] - best[1] * worst[2], worst[2] * best[2]>>

\* C20 as stated: every futures record emitted has an edge strictly above
\* the floor of 5 percentage points.
C20_EdgeAboveFloor ==
    det.op = "find_futures_value" =>
        \A i \in DOMAIN det.result :
            100 * FuturesEdge(det.result[i])[1] > 5 * FuturesEdge(det.result[i])[2]

\* C20: every futures record emitted has an edge of at least the floor of 5
\* percentage points, as computed from its best and worst prices and as
\* reported in edge_percent; an edge of exactly 5 is emitted.
C20_EdgeAtLeastFloor ==
    det.op = "find_futures_value" =>
        \A i \in DOMAIN det.result :
            /\ det.result[i].best_odds >= det.result[i].worst_odds
            /\ 100 * FuturesEdge(det.result[i])[1] >= 5 * FuturesEdge(det.result[i])[2]
            /\ det.result[i].edge_percent >= 50

\* A record whose edge is exactly 5 percentage points was emitted.
C20_Witness ==
    /\ det.op = "find_futures_value"
    /\ \E i \in DOMAIN det.result :
          /\ 100 * FuturesEdge(det.result[i])[1] = 5 * FuturesEdge(det.result[i])[2]
          /\ det.result[i].edge_percent = 50

(***************************************************************************)
(* Properties of the opening and current values.                           *)
(***************************************************************************)
\* The positions in the history of the observations of a record's key.
PositionsOf(rec) ==
    {i \in DOMAIN HistoryRows : MovementKey(HistoryRows[i]) = MovementKey(rec)}

\* The first-arrived observation among those with the minimum timestamp.
OpeningPosition(rec) ==
    CHOOSE i \in PositionsOf(rec) :
        \A j \in PositionsOf(rec) :
            \/ HistoryRows[i].timestamp_utc < HistoryRows[j].timestamp_utc
            \/ HistoryRows[i].timestamp_utc = HistoryRows[j].timestamp_utc /\ i <= j

\* The last-arrived observation among those with the maximum timestamp.
CurrentPosition(rec) ==
    CHOOSE i \in PositionsOf(rec) :
        \A j \in PositionsOf(rec) :
            \/ HistoryRows[i].timestamp_utc > HistoryRows[j].timestamp_utc
            \/ HistoryRows[i].timestamp_utc = HistoryRows[j].timestamp_utc /\ i >= j

\* C22: when observations of a key have equal timestamps, arrival order
\* decides: the opening price and line are those of the first-arrived
\* observation with the minimum timestamp, the current price and line those
\* of the last-arrived observation with the maximum timestamp.
C22_TiesByArrival ==
    GeneratedFromRows =>
        \A i \in DOMAIN latest.rows :
            LET rec == latest.rows[i]
                first == HistoryRows[OpeningPosition(rec)]
                last == HistoryRows[CurrentPosition(rec)]
            IN  /\ rec.opening_price = first.price
                /\ rec.opening_line = first.line
                /\ rec.current_price = last.price
                /\ rec.current_line = last.line

\* Two observations of one key carry the same timestamp and different
\* prices and lines; the first-arrived gave the opening values, the
\* last-arrived the current ones.
C22_Witness ==
    /\ GeneratedFromRows
    /\ Len(HistoryRows) = 2
    /\ MovementKey(HistoryRows[1]) = MovementKey(HistoryRows[2])
    /\ HistoryRows[1].timestamp_utc = HistoryRows[2].timestamp_utc
    /\ HistoryRows[1].price # HistoryRows[2].price
    /\ HistoryRows[1].line # HistoryRows[2].line
    /\ Len(latest.rows) = 1
    /\ latest.rows[1].opening_price = HistoryRows[1].price
    /\ latest.rows[1].current_line = HistoryRows[2].line

\* The snapshot is the one generate_latest writes from the first p rows of h.
SnapshotOfPrefix(h, p) ==
    /\ latest.exists
    /\ ~LatestRaises(SubSeq(h, 1, p))
    /\ latest.rows = LatestRows(SubSeq(h, 1, p))

\* Every row of h after the first p carries a timestamp greater than or
\* equal to the timestamps of all rows before it.
AppendedInTimeOrder(h, p) ==
    \A i \in (p + 1)..Len(h) : \A j \in 1..(i - 1) : h[j].timestamp_utc <= h[i].timestamp_utc

\* C28: when a snapshot written from the history as it was (its first p
\* rows) is replaced by a later one, and every observation appended in
\* between carried a timestamp greater than or equal to all timestamps
\* already in the history, every key of the old snapshot has a record in
\* the new one with the same opening_price and opening_line.
C28_OpeningStable ==
    [][latest' # latest =>
          \A p \in 1..Len(load_history(history')) :
              (SnapshotOfPrefix(load_history(history'), p)
               /\ AppendedInTimeOrder(load_history(history'), p)) =>
                  \A i \in DOMAIN latest.rows :
                      \E j \in DOMAIN latest'.rows :
                          /\ MovementKey(latest'.rows[j]) = MovementKey(latest.rows[i])
                          /\ latest'.rows[j].opening_price = latest.rows[i].opening_price
                          /\ latest'.rows[j].opening_line = latest.rows[i].opening_line]_vars

\* A key observed at -110 and line 45 was observed again, later, at +120
\* and line 48: the snapshot shows the move and still opens at -110 and 45.
C28_Witness ==
    /\ GeneratedFromRows
    /\ Len(HistoryRows) = 2
    /\ MovementKey(HistoryRows[1]) = MovementKey(HistoryRows[2])
    /\ HistoryRows[1].timestamp_utc < HistoryRows[2].timestamp_utc
    /\ HistoryRows[1].price = NumCell(-110)
    /\ HistoryRows[2].price = NumCell(120)
    /\ Len(latest.rows) = 1
    /\ latest.rows[1].opening_price = NumCell(-110)
    /\ latest.rows[1].opening_line = NumCell(45)
    /\ latest.rows[1].current_price = NumCell(120)

\* A line cell float() parses.
LinePresent(cell) == cell.kind = "num"

\* C23: in every movement record line_movement is present exactly when the
\* opening and the current line are both present, which is when the lines
\* of the opening and of the current observation are both non-empty and
\* parsable; it then equals current_line - opening_line.  A line that is
\* empty or unparsable is absent in the record, and line_movement is then
\* absent, not a difference against 0.
C23_LineMovement ==
    GeneratedFromRows =>
        \A i \in DOMAIN latest.rows :
            LET rec == latest.rows[i]
                first == HistoryRows[OpeningPosition(rec)]
                last == HistoryRows[CurrentPosition(rec)]
            IN  /\ LinePresent(rec.opening_line) <=> LinePresent(first.line)
                /\ LinePresent(rec.current_line) <=> LinePresent(last.line)
                /\ LinePresent(rec.opening_line) => rec.opening_line = first.line
                /\ LinePresent(rec.current_line) => rec.current_line = last.line
                /\ ~LinePresent(rec.opening_line) => rec.opening_line = EmptyCell
                /\ ~LinePresent(rec.current_line) => rec.current_line = EmptyCell
                /\ LinePresent(rec.line_movement) <=>
                      (LinePresent(rec.opening_line) /\ LinePresent(rec.current_line))
                /\ LinePresent(rec.line_movement) =>
                      rec.line_movement.num = rec.current_line.num - rec.opening_line.num
                /\ ~LinePresent(rec.line_movement) => rec.line_movement = EmptyCell

\* A key opened at a line of 45 and its current observation carries a line
\* float() rejects: the record has the opening line, no current line and no
\* line movement.
C23_Witness ==
    /\ GeneratedFromRows
    /\ Len(HistoryRows) = 2
    /\ HistoryRows[1].line = NumCell(45)
    /\ HistoryRows[2].line = TextCell
    /\ HistoryRows[1].timestamp_utc < HistoryRows[2].timestamp_utc
    /\ Len(latest.rows) = 1
    /\ latest.rows[1].opening_line = NumCell(45)
    /\ latest.rows[1].current_line = EmptyCell
    /\ latest.rows[1].line_movement = EmptyCell

\* A snapshot row meets the threshold of its market type.
MeetsThreshold(row) ==
    \/ /\ row.market_type = "spread"
       /\ LinePresent(row.line_movement)
       /\ 10 * Abs(row.line_movement.num) >= SPREAD_THRESHOLD_X10
    \/ /\ row.market_type = "total"
       /\ LinePresent(row.line_movement)
       /\ 10 * Abs(row.line_movement.num) >= TOTAL_THRESHOLD_X10
    \/ /\ row.market_type = "moneyline"
       /\ Abs(row.price_movement.num) >= MONEYLINE_THRESHOLD

\* C30: find_significant_movements, applied to the rows of a snapshot
\* generate_latest wrote, returns an entry for every row that meets the
\* threshold of its market type and none for a row below it.
C30_ThresholdRowsReported ==
    [][(det'.op = "find_significant_movements" /\ det' # det) =>
          \A i \in DOMAIN latest.rows :
              MeetsThreshold(latest.rows[i]) <=>
                  \E j \in DOMAIN det'.result :
                      /\ det'.result[j].book = latest.rows[i].book
                      /\ det'.result[j].outcome = latest.rows[i].outcome
                      /\ det'.result[j].current_price = latest.rows[i].current_price
                      /\ det'.result[j].current_line = latest.rows[i].current_line]_vars

(***************************************************************************)
(* Properties of the detectors on snapshots with several markets.          *)
(***************************************************************************)
\* C21: the list find_arbitrage_opportunities returns is in descending
\* order of roi_percent: no entry has a smaller roi_percent than a later
\* one, so the first five entries are five of the highest.
C21_RoiDescending ==
    det.op = "find_arbitrage_opportunities" =>
        \A i, j \in DOMAIN det.result :
            i < j => det.result[i].roi_percent >= det.result[j].roi_percent

\* Two opportunities of different return were found, and the one the loops
\* reach second (the total, after the moneyline) is returned first.
C21_Witness ==
    /\ det.op = "find_arbitrage_opportunities"
    /\ Len(det.result) = 2
    /\ det.result[1].market = "total"
    /\ det.result[2].market = "moneyline"
    /\ det.result[1].roi_percent > det.result[2].roi_percent

\* The outcome a leg stands for: the first leg is the home or the over side,
\* the second the away or the under side.
LegOutcome(market, k) ==
    IF market = "moneyline" THEN (IF k = 1 THEN "home" ELSE "away")
    ELSE (IF k = 1 THEN "over" ELSE "under")

\* A row qualifies for the last detector call: its book is allowed, its
\* price is a valid American price, and its event has not started (and, for
\* the tight-line detector, starts within 24 hours).
Qualifies(r) ==
    /\ Lower(r.book) \in ILLINOIS_BOOKS
    /\ r.current_price.kind = "num"
    /\ (r.current_price.num >= 100 \/ r.current_price.num <= -100)
    /\ r.event_start_time.kind = "num"
    /\ r.event_start_time.num >= det.now
    /\ det.op = "find_tight_lines" => r.event_start_time.num <= det.now + 24

\* The line a leg was evaluated at: none for a moneyline, else the line of
\* the total.
AtLegLine(r, leg) ==
    \/ leg.side.line = NoLine
    \/ leg.side.line = r.current_line
    \/ leg.side.line.kind = "zero" /\ r.current_line = EmptyCell

\* The qualifying quotes of the side of leg k of the record o.
SideQuotes(o, k) ==
    {r \in {latest.rows[i] : i \in DOMAIN latest.rows} :
        /\ Qualifies(r)
        /\ r.event_id = o.event_id
        /\ r.market_type = o.market
        /\ r.outcome = LegOutcome(o.market, k)
        /\ AtLegLine(r, o.legs[k])}

\* C24: in the arbitrage and in the tight-line detector each leg of an
\* emitted record is a qualifying quote of its side with the maximum
\* American price of that side: no qualifying quote of the side is higher.
C24_BestPricePerSide ==
    det.op \in {"find_arbitrage_opportunities", "find_tight_lines"} =>
        \A i \in DOMAIN det.result : \A k \in {1, 2} :
            LET o == det.result[i]
            IN  /\ \E r \in SideQuotes(o, k) :
                      /\ r.current_price.num = o.legs[k].odds
                      /\ Lower(r.book) = o.legs[k].book
                /\ \A r \in SideQuotes(o, k) : r.current_price.num <= o.legs[k].odds

\* A record was emitted for a side two books quote at different prices.
C24_Witness ==
    /\ det.op \in {"find_arbitrage_opportunities", "find_tight_lines"}
    /\ \E i \in DOMAIN det.result : \E k \in {1, 2} :
          \E r \in SideQuotes(det.result[i], k) :
              r.current_price.num < det.result[i].legs[k].odds

\* The snapshot row behind leg k of the record o (a snapshot holds one row
\* per book, event, market and outcome).
LegRow(o, k) ==
    CHOOSE r \in {latest.rows[i] : i \in DOMAIN latest.rows} :
        /\ Lower(r.book) = o.legs[k].book
        /\ r.event_id = o.event_id
        /\ r.market_type = o.market
        /\ r.outcome = LegOutcome(o.market, k)

\* The records of a detector result for the total of an event at a line.
TotalsAt(result, event_id, line) ==
    {result[i] : i \in {j \in DOMAIN result :
                            /\ result[j].market = "total"
                            /\ result[j].event_id = event_id
                            /\ LegRow(result[j], 1).current_line = line}}

\* The snapshot without the total rows quoted at another line.
WithoutOtherLines(line) ==
    SelectSeq(latest.rows, LAMBDA r : r.market_type = "total" => r.current_line = line)

\* C25: every arbitrage or tight-line record of a total pairs an over and
\* an under quoted at the same line; there is at most one record per event
\* and line; and the record of a line is the one the detector produces when
\* the totals quoted at other lines are absent.
C25_SameLineOnly ==
    det.op \in {"find_arbitrage_opportunities", "find_tight_lines"} =>
        /\ \A i \in DOMAIN det.result :
              det.result[i].market = "total" =>
                  /\ LegRow(det.result[i], 1).outcome = "over"
                  /\ LegRow(det.result[i], 2).outcome = "under"
                  /\ LegRow(det.result[i], 1).current_line
                        = LegRow(det.result[i], 2).current_line
                  /\ LegRow(det.result[i], 1).current_price.num = det.result[i].legs[1].odds
                  /\ LegRow(det.result[i], 2).current_price.num = det.result[i].legs[2].odds
        /\ \A i, j \in DOMAIN det.result :
              (/\ det.result[i].market = "total"
               /\ det.result[j].market = "total"
               /\ det.result[i].event_id = det.result[j].event_id
               /\ LegRow(det.result[i], 1).current_line
                     = LegRow(det.result[j], 1).current_line) => i = j
        /\ \A i \in DOMAIN latest.rows :
              latest.rows[i].market_type = "total" =>
                  TotalsAt(det.result, latest.rows[i].event_id, latest.rows[i].current_line)
                    = TotalsAt(DetectorOn(WithoutOtherLines(latest.rows[i].current_line)),
                               latest.rows[i].event_id, latest.rows[i].current_line)

\* A record was emitted for the total at one line while the other side is
\* also quoted, at a better price than the leg used, at another line.
C25_Witness ==
    /\ det.op \in {"find_arbitrage_opportunities", "find_tight_lines"}
    /\ \E i \in DOMAIN det.result :
          /\ det.result[i].market = "total"
          /\ \E j \in DOMAIN latest.rows :
                /\ latest.rows[j].market_type = "total"
                /\ latest.rows[j].outcome = "over"
                /\ latest.rows[j].current_line # LegRow(det.result[i], 1).current_line
                /\ latest.rows[j].current_price.num > det.result[i].legs[1].odds

\* The rows of the two-way markets the detectors evaluate: moneyline home
\* and away, total over and under.
EvaluatedRows ==
    SelectSeq(latest.rows,
              LAMBDA r : \/ r.market_type = "moneyline" /\ r.outcome \in {"home", "away"}
                         \/ r.market_type = "total" /\ r.outcome \in {"over", "under"})

\* C29 as stated: find_arbitrage_opportunities and find_tight_lines return
\* what they return for the snapshot without the rows of other market types
\* and without the draw quotes.
C29_OtherMarketsChangeNothing ==
    det.op \in {"find_arbitrage_opportunities", "find_tight_lines"} =>
        det.result = DetectorOn(EvaluatedRows)

\* What a record says about the bet: event, market, what it measured, and
\* book, price, stake and line of each leg.
BetOf(o) ==
    <<o.event_id, o.market,
      IF det.op = "find_arbitrage_opportunities" THEN o.roi_percent ELSE o.implied_prob_sum,
      <<o.legs[1].book, o.legs[1].odds, o.legs[1].stake, o.legs[1].side.line>>,
      <<o.legs[2].book, o.legs[2].odds, o.legs[2].stake, o.legs[2].side.line>>>>

BetsOf(result) == [i \in DOMAIN result |-> BetOf(result[i])]

\* C29: every record is for a moneyline, with a home and an away leg, or
\* for a total, with an over and an under leg; and the bets returned, in
\* their order, are those returned for the snapshot without the rows of
\* other market types and without the draw quotes.
C29_OnlyMoneylineAndTotal ==
    det.op \in {"find_arbitrage_opportunities", "find_tight_lines"} =>
        /\ \A i \in DOMAIN det.result :
              /\ det.result[i].market \in {"moneyline", "total"}
              /\ LegRow(det.result[i], 1).outcome \in {"home", "over"}
              /\ LegRow(det.result[i], 2).outcome \in {"away", "under"}
        /\ BetsOf(det.result) = BetsOf(DetectorOn(EvaluatedRows))

\* A record was emitted from a snapshot that also holds a spread quoted on
\* both sides at prices that would be an arbitrage.
C29_Witness ==
    /\ det.op = "find_arbitrage_opportunities"
    /\ det.result # <<>>
    /\ \E i, j \in DOMAIN latest.rows :
          /\ latest.rows[i].market_type = "spread"
          /\ latest.rows[i].outcome = "home"
          /\ latest.rows[j].market_type = "spread"
          /\ latest.rows[j].outcome = "away"

(***************************************************************************)
(* Properties of the stake split.                                          *)
(***************************************************************************)
\* The decimal odds of leg k of an opportunity, in lowest terms.
LegDecimal(o, k) ==
    LET dec == american_to_decimal(o.legs[k].odds) IN Frac(dec[1], dec[2])

\* The unrounded stake of leg k, as check_two_way_arb computes it from the
\* two leg prices.
LegStake(o, k) ==
    Stake(american_to_decimal(o.legs[k].odds),
          ImpliedSum(american_to_decimal(o.legs[1].odds),
                     american_to_decimal(o.legs[2].odds)))

\* What leg k pays when its side wins.
LegPayout(o, k) == FracMul(LegStake(o, k), LegDecimal(o, k))

WithinDayRows ==
    SelectSeq(latest.rows, LAMBDA r : /\ r.event_start_time.kind = "num"
                                      /\ r.event_start_time.num >= det.now
                                      /\ r.event_start_time.num <= det.now + 24)

\* C27: every record find_tight_lines emits carries an event_start_time t
\* with now <= t <= now + 24 hours, and the result is the one for the
\* snapshot without the rows whose event_start_time is past, more than 24
\* hours ahead, absent or unparsable: such rows contribute no leg.
C27_WithinDayOnly ==
    det.op = "find_tight_lines" =>
        /\ \A i \in DOMAIN det.result :
              /\ det.result[i].event_start_time.kind = "num"
              /\ det.result[i].event_start_time.num >= det.now
              /\ det.result[i].event_start_time.num <= det.now + 24
        /\ det.result = DetectorOn(WithinDayRows)

\* A tight line was emitted with a leg whose event starts exactly 24 hours
\* after now, from a snapshot in which the same side is quoted at a better
\* price by a row whose event starts 30 hours after now.
C27_Witness ==
    /\ det.op = "find_tight_lines"
    /\ det.now = 10
    /\ det.result # <<>>
    /\ \E i, j \in DOMAIN latest.rows :
          /\ latest.rows[i].event_start_time = NumCell(34)
          /\ latest.rows[i].current_price.num = det.result[1].legs[1].odds
          /\ latest.rows[i].outcome = "home"
          /\ latest.rows[j].event_start_time = NumCell(40)
          /\ latest.rows[j].outcome = "home"
          /\ latest.rows[j].current_price = NumCell(160)
          /\ Lower(latest.rows[j].book) \in ILLINOIS_BOOKS

====
